---- MODULE Spec2Model ----
(***************************************************************************)
(* A model of the XeroML Python SDK (src/xeroml): the error classifier     *)
(* (errors.py), the typed model layer (types.py), the request executor and *)
(* facade (client.py, async_client.py) and the session handle (session.py).*)
(*                                                                         *)
(* Conventions.                                                            *)
(*  - A JSON object is a function whose domain is the set of keys present. *)
(*    A JSON array is wrapped as [array |-> <<...>>], so that an object    *)
(*    and an array are never confused.                                     *)
(*  - Python's None is the empty tuple << >>; a present optional value v   *)
(*    is the one-element tuple <<v>>.                                      *)
(*  - A float of the closed unit interval is an integer number of tenths:  *)
(*    0.0 is 0, 0.5 is 5, 1.0 is 10; -1 and 11 lie just outside.           *)
(*  - The outcome of a call is a record with a field kind: "value" for a   *)
(*    normal return, "XeroMLError" for a failure raised by the classifier, *)
(*    "ValidationError" for a pydantic failure, "AttributeError",          *)
(*    "KeyError" or "TypeError" for an untyped Python failure.             *)
(***************************************************************************)
EXTENDS Integers, Sequences, FiniteSets, TLC

VARIABLES
    status_code, body, raised,   \* the classifier's arguments and what it raised
    payload, decoded,            \* a 2xx payload and the last decoding of it
    handles, ended, last,        \* the client's Session handles, the service's
                                 \* ended sessions, the last completed call
    http_state, lifecycle,       \* the facade's httpx client ("open", "closed")
                                 \* and where the caller is with the facade
    ahttp_state,                 \* the httpx client of the AsyncXeroML facade
    ahandles, alast,             \* the AsyncSession handles and the last
                                 \* completed call of the suspending client
    tasks                        \* the coroutines calling through one AsyncXeroML

vars == <<status_code, body, raised, payload, decoded, handles, ended, last,
          http_state, lifecycle, ahttp_state, ahandles, alast, tasks>>

\* the suspending client and the coroutines calling through it
asyncVars == <<ahttp_state, ahandles, alast, tasks>>

\* the facade's lifecycle, the suspending client and the coroutines
restVars == <<http_state, lifecycle, asyncVars>>

None == << >>
Some(v) == <<v>>

\* dict.get(key, default)
Get(d, key, default) == IF key \in DOMAIN d THEN d[key] ELSE default

\* dict.get(key): None when the key is absent
GetOpt(d, key) == IF key \in DOMAIN d THEN Some(d[key]) ELSE None

\* the empty JSON object {}
EmptyObj == [k \in {} |-> ""]

\* the restriction of an object to some of its keys
Restrict(d, keys) == [k \in keys |-> d[k]]

(***************************************************************************)
(* errors.py                                                               *)
(***************************************************************************)

\* XeroMLError.__init__: the four fields every failure carries; cls is the
\* Python class of the exception.
XeroMLError(cls, code, status, message, details) ==
    [cls |-> cls, code |-> code, status |-> status, message |-> message,
     details |-> details]

\* The subclasses' constructors. The argument message is None when the caller
\* passes none, and then the parameter's default applies.
InvalidAPIKeyError(message, details) ==
    XeroMLError("InvalidAPIKeyError", "invalid_api_key", 401,
                IF message = None THEN "Invalid or revoked API key." ELSE message[1],
                details)

CreditsExhaustedError(message, details) ==
    XeroMLError("CreditsExhaustedError", "credits_exhausted", 402,
                IF message = None THEN "Credits exhausted." ELSE message[1],
                details)

RateLimitedError(message, details) ==
    XeroMLError("RateLimitedError", "rate_limited", 429,
                IF message = None THEN "Rate limit exceeded." ELSE message[1],
                details)

ParseFailedError(message, details) ==
    XeroMLError("ParseFailedError", "parse_failed", 422,
                IF message = None THEN "Parse failed." ELSE message[1],
                details)

SessionNotFoundError(message, details) ==
    XeroMLError("SessionNotFoundError", "session_not_found", 404,
                IF message = None THEN "Session not found." ELSE message[1],
                details)

SessionEndedError(message, details) ==
    XeroMLError("SessionEndedError", "session_ended", 409,
                IF message = None THEN "Session is already completed." ELSE message[1],
                details)

\* _ERROR_MAP with a 409 that is not mapped (a dropped table row)
ERROR_MAP_No409 ==
    [s \in {401, 402, 429, 422, 404} |->
        CASE s = 401 -> "InvalidAPIKeyError"
          [] s = 402 -> "CreditsExhaustedError"
          [] s = 429 -> "RateLimitedError"
          [] s = 422 -> "ParseFailedError"
          [] s = 404 -> "SessionNotFoundError"]

\* _ERROR_MAP with the rows of 422 and 429 exchanged
ERROR_MAP_Swapped ==
    [s \in {401, 402, 429, 422, 404, 409} |->
        CASE s = 401 -> "InvalidAPIKeyError"
          [] s = 402 -> "CreditsExhaustedError"
          [] s = 429 -> "ParseFailedError"
          [] s = 422 -> "RateLimitedError"
          [] s = 404 -> "SessionNotFoundError"
          [] s = 409 -> "SessionEndedError"]

\* _ERROR_MAP: status -> exception class
ERROR_MAP ==
    [s \in {401, 402, 429, 422, 404, 409} |->
        CASE s = 401 -> "InvalidAPIKeyError"
          [] s = 402 -> "CreditsExhaustedError"
          [] s = 429 -> "RateLimitedError"
          [] s = 422 -> "ParseFailedError"
          [] s = 404 -> "SessionNotFoundError"
          [] s = 409 -> "SessionEndedError"]

\* error_cls(message=message, details=details) for a class of _ERROR_MAP
Construct(cls, message, details) ==
    CASE cls = "InvalidAPIKeyError"    -> InvalidAPIKeyError(message, details)
      [] cls = "CreditsExhaustedError" -> CreditsExhaustedError(message, details)
      [] cls = "RateLimitedError"      -> RateLimitedError(message, details)
      [] cls = "ParseFailedError"      -> ParseFailedError(message, details)
      [] cls = "SessionNotFoundError"  -> SessionNotFoundError(message, details)
      [] cls = "SessionEndedError"     -> SessionEndedError(message, details)

\* raise_for_status: the failure it raises (it has no normal return)
raise_for_status(status, b) ==
    LET error_data == Get(b, "error", b)
        message    == Get(error_data, "message", "Unknown error")
        details    == GetOpt(error_data, "details")
        error_cls  == Get(ERROR_MAP, status, "XeroMLError")
    IN  IF error_cls = "XeroMLError"
        THEN XeroMLError("XeroMLError", Get(error_data, "code", "unknown"),
                         status, message, details)
        ELSE Construct(error_cls, Some(message), details)

(***************************************************************************)
(* types.py: each model class is an operator from the raw JSON object to   *)
(* [ok |-> TRUE, value |-> the validated object, defaults filled in] or    *)
(* [ok |-> FALSE] (pydantic's ValidationError). Keys the class does not    *)
(* declare are ignored.                                                    *)
(***************************************************************************)

Invalid == [ok |-> FALSE]
Valid(v) == [ok |-> TRUE, value |-> v]

\* Field(ge=0.0, le=1.0) with the upper endpoint excluded
InUnitInterval_Open(v) == v >= 0 /\ v < 10

\* Field(ge=0.0, le=1.0), in tenths
InUnitInterval(v) == v >= 0 /\ v <= 10

\* pattern ^(exploring|deciding|executing)$ (pydantic's regex engine matches $
\* at the end of the text only, so a member followed by a newline fails)
ActionReadinessPattern(v) == v \in {"exploring", "deciding", "executing"}

\* pattern ^(clear|partial|conflicting)$
AmbiguityLevelPattern(v) == v \in {"clear", "partial", "conflicting"}

\* pattern ^(low|medium|high)$
RiskSensitivityPattern(v) == v \in {"low", "medium", "high"}

\* pattern ^(single|compound|multi_step)$
IntentScopePattern(v) == v \in {"single", "compound", "multi_step"}

\* the status pattern without its anchors: any string containing a member passes
StatusPattern_Unanchored(v) ==
    v \in {"pending", "active", "done", "blocked", "abandoned", "background",
           "background_task"}

\* pattern ^(pending|active|done|blocked|abandoned|background)$
StatusPattern(v) ==
    v \in {"pending", "active", "done", "blocked", "abandoned", "background"}

Has(d, keys) == keys \subseteq DOMAIN d

\* class LatentStates
LatentStates(d) ==
    IF /\ Has(d, {"goal_intent", "action_readiness", "ambiguity_level",
                  "risk_sensitivity", "intent_scope"})
       /\ ActionReadinessPattern(d.action_readiness)
       /\ AmbiguityLevelPattern(d.ambiguity_level)
       /\ RiskSensitivityPattern(d.risk_sensitivity)
       /\ IntentScopePattern(d.intent_scope)
    THEN Valid([goal_intent |-> d.goal_intent,
                action_readiness |-> d.action_readiness,
                ambiguity_level |-> d.ambiguity_level,
                risk_sensitivity |-> d.risk_sensitivity,
                intent_scope |-> d.intent_scope])
    ELSE Invalid

\* class IntentMeta
IntentMeta(d) ==
    IF /\ Has(d, {"confidence", "latent_states"})
       /\ InUnitInterval(d.confidence)
       /\ LatentStates(d.latent_states).ok
    THEN Valid([source |-> Get(d, "source", "user_input"),
                confidence |-> d.confidence,
                negotiation_history |-> Get(d, "negotiation_history", << >>),
                latent_states |-> LatentStates(d.latent_states).value])
    ELSE Invalid

RECURSIVE SubGoal(_)
\* class SubGoal: children are SubGoals, validated recursively
SubGoal(d) ==
    LET kids == Get(d, "children", << >>)
        subs == [i \in DOMAIN kids |-> SubGoal(kids[i])]
    IN  IF /\ Has(d, {"id", "goal", "priority"})
           /\ ("status" \in DOMAIN d => StatusPattern(d.status))
           /\ InUnitInterval(d.priority)
           /\ ("uncertainty" \in DOMAIN d => InUnitInterval(d.uncertainty))
           /\ \A i \in DOMAIN subs : subs[i].ok
        THEN Valid([id |-> d.id,
                    goal |-> d.goal,
                    status |-> Get(d, "status", "pending"),
                    priority |-> d.priority,
                    success_criteria |-> Get(d, "success_criteria", << >>),
                    constraints |-> Get(d, "constraints", << >>),
                    uncertainty |-> Get(d, "uncertainty", 5),
                    context_requirements |-> Get(d, "context_requirements", << >>),
                    modality |-> Get(d, "modality", "text"),
                    dependencies |-> Get(d, "dependencies", << >>),
                    children |-> [i \in DOMAIN subs |-> subs[i].value]])
        ELSE Invalid

\* class IntentGraph
IntentGraph(d) ==
    LET subs == [i \in DOMAIN d.sub_goals |-> SubGoal(d.sub_goals[i])]
    IN  IF /\ Has(d, {"root_goal", "sub_goals", "meta"})
           /\ \A i \in DOMAIN subs : subs[i].ok
           /\ IntentMeta(d.meta).ok
        THEN Valid([schema_version |-> Get(d, "schema_version", "0.1.0"),
                    root_goal |-> d.root_goal,
                    sub_goals |-> [i \in DOMAIN subs |-> subs[i].value],
                    meta |-> IntentMeta(d.meta).value])
        ELSE Invalid

\* class DriftReport: only `detected` is required, no field is constrained
DriftReport(d) ==
    IF Has(d, {"detected"})
    THEN Valid([detected |-> d.detected,
                drift_type |-> GetOpt(d, "drift_type"),
                severity |-> GetOpt(d, "severity"),
                description |-> GetOpt(d, "description"),
                previous_goal |-> GetOpt(d, "previous_goal"),
                current_goal |-> GetOpt(d, "current_goal")])
    ELSE Invalid

\* class SessionInfo
SessionInfo(d) ==
    IF Has(d, {"session_id", "status", "turn_count", "created_at", "updated_at"})
    THEN Valid([session_id |-> d.session_id,
                status |-> d.status,
                turn_count |-> d.turn_count,
                created_at |-> d.created_at,
                updated_at |-> d.updated_at])
    ELSE Invalid

\* class CreditInfo
CreditInfo(d) ==
    IF Has(d, {"used", "total", "remaining"})
    THEN Valid([used |-> d.used, total |-> d.total, remaining |-> d.remaining])
    ELSE Invalid

\* class UsageMonth
UsageMonth(d) ==
    IF Has(d, {"month", "parse_calls", "drift_checks", "session_creates"})
    THEN Valid([month |-> d.month,
                parse_calls |-> d.parse_calls,
                drift_checks |-> d.drift_checks,
                session_creates |-> d.session_creates,
                total_latency_ms |-> Get(d, "total_latency_ms", 0)])
    ELSE Invalid

\* class UsageInfo
UsageInfo(d) ==
    LET months == Get(d, "usage", << >>)
        subs   == [i \in DOMAIN months |-> UsageMonth(months[i])]
    IN  IF /\ Has(d, {"credits", "tier", "rate_limit"})
           /\ CreditInfo(d.credits).ok
           /\ \A i \in DOMAIN subs : subs[i].ok
        THEN Valid([credits |-> CreditInfo(d.credits).value,
                    tier |-> d.tier,
                    rate_limit |-> d.rate_limit,
                    usage |-> [i \in DOMAIN subs |-> subs[i].value]])
        ELSE Invalid

(***************************************************************************)
(* The classifier alone: every status and every error body.                *)
(***************************************************************************)

\* The statuses the classifier is tried on: the six of the table, and others
\* of every class (1xx, 2xx, 3xx, 4xx, 5xx).
ClassifyStatuses == {100, 200, 302, 400, 401, 402, 403, 404, 409, 422, 429, 500, 503}

ErrorFields == {"code", "message", "details"}

TopFields == [code |-> "top_code", message |-> "Top message",
              details |-> [credits_used |-> 100]]

NestedFields == [code |-> "nested_code", message |-> "Nested message",
                 details |-> [credits_used |-> 7]]

\* The error bodies: an object with any of code, message, details at the top
\* level, and optionally an object `error` with any of the three.
ErrorBodies ==
    LET tops == {Restrict(TopFields, ks) : ks \in SUBSET ErrorFields}
        errs == {Restrict(NestedFields, ks) : ks \in SUBSET ErrorFields}
    IN  tops \cup
        { [k \in DOMAIN t \cup {"error"} |-> IF k = "error" THEN e ELSE t[k]] :
            t \in tops, e \in errs }

NotRaised == [cls |-> "none"]

Idle == [op |-> "none"]

\* no coroutine exists
NoTasks == << >>

InitClassify ==
    /\ http_state = "open"
    /\ lifecycle = "constructed"
    /\ ahttp_state = "open"
    /\ ahandles = {}
    /\ alast = Idle
    /\ tasks = NoTasks
    /\ status_code \in ClassifyStatuses
    /\ body \in ErrorBodies
    /\ raised = NotRaised
    /\ payload = EmptyObj
    /\ decoded = Idle
    /\ handles = {}
    /\ ended = {}
    /\ last = Idle

\* a call of raise_for_status(status_code, body)
Classify ==
    /\ raised = NotRaised
    /\ raised' = raise_for_status(status_code, body)
    /\ UNCHANGED <<status_code, body, payload, decoded, handles, ended, last,
                   restVars>>

NextClassify == Classify

SpecClassify == InitClassify /\ [][NextClassify]_vars

\* the part of an error body that carries code, message and details: the
\* nested `error` object when there is one, else the body itself
ErrorData(b) == IF "error" \in DOMAIN b THEN b.error ELSE b

TableStatuses == {401, 402, 422, 429, 404, 409}

\* C1: raise_for_status raises, for every status and every error body, exactly
\* the failure of the table: 401 InvalidAPIKey, 402 CreditsExhausted, 422
\* ParseFailed, 429 RateLimited, 404 SessionNotFound, 409 SessionEnded, each
\* with its fixed code and a status equal to the HTTP status; any other status
\* gives the generic XeroMLError with the HTTP status and the body's own code,
\* or "unknown" when the body has none.
C1_ClassifierTable ==
    raised # NotRaised =>
        /\ raised.status = status_code
        /\ status_code = 401 =>
              raised.cls = "InvalidAPIKeyError" /\ raised.code = "invalid_api_key"
        /\ status_code = 402 =>
              raised.cls = "CreditsExhaustedError" /\ raised.code = "credits_exhausted"
        /\ status_code = 422 =>
              raised.cls = "ParseFailedError" /\ raised.code = "parse_failed"
        /\ status_code = 429 =>
              raised.cls = "RateLimitedError" /\ raised.code = "rate_limited"
        /\ status_code = 404 =>
              raised.cls = "SessionNotFoundError" /\ raised.code = "session_not_found"
        /\ status_code = 409 =>
              raised.cls = "SessionEndedError" /\ raised.code = "session_ended"
        /\ status_code \notin TableStatuses =>
              /\ raised.cls = "XeroMLError"
              /\ raised.code = IF "code" \in DOMAIN ErrorData(body)
                               THEN ErrorData(body).code ELSE "unknown"

\* a 422 whose nested error object carries its own (ignored) code was classified
C1_Witness ==
    /\ status_code = 422
    /\ "error" \in DOMAIN body
    /\ "code" \in DOMAIN body.error
    /\ raised # NotRaised
    /\ raised.cls = "ParseFailedError"

\* the default message each class declares
DefaultMessage(status) ==
    CASE status = 401 -> "Invalid or revoked API key."
      [] status = 402 -> "Credits exhausted."
      [] status = 429 -> "Rate limit exceeded."
      [] status = 422 -> "Parse failed."
      [] status = 404 -> "Session not found."
      [] status = 409 -> "Session is already completed."

\* C3: for a status of the table, the failure carries the body's message when
\* the body has one, and that kind's own default message when it has none.
C3_DefaultMessage ==
    (raised # NotRaised /\ status_code \in TableStatuses) =>
        raised.message = IF "message" \in DOMAIN ErrorData(body)
                         THEN ErrorData(body).message
                         ELSE DefaultMessage(status_code)

(***************************************************************************)
(* client.py, session.py: the request executor and the operations. The     *)
(* client keeps no state between calls, so each operation is an operator   *)
(* from the response it is given, [status, json], to its outcome.          *)
(***************************************************************************)

Returned(v) == [kind |-> "value", value |-> v]
Raised(e) == [kind |-> "XeroMLError", error |-> e]
Failed(k) == [kind |-> k]

\* the outcome of Model(**data)
FromModel(m) == IF m.ok THEN Returned(m.value) ELSE Failed("ValidationError")

IsArray(j) == DOMAIN j = {"array"}

\* httpx.Response.is_success taking 300 for a success
is_success_Through300(status) == 200 <= status /\ status <= 300

\* httpx.Response.is_success
is_success(status) == 200 <= status /\ status < 300

\* XeroML._request: the classifier's failure for a non-success response, the
\* response otherwise; classified tells whether raise_for_status was called
_request(res) ==
    IF ~is_success(res.status)
    THEN [raised |-> TRUE, classified |-> TRUE,
          error |-> raise_for_status(res.status, res.json)]
    ELSE [raised |-> FALSE, classified |-> FALSE, json |-> res.json]

\* data.get("graph", data) that never unwraps
Unwrap_TopOnly(data) == data

\* data.get("graph", data)
Unwrap(data) == Get(data, "graph", data)

\* IntentGraph(**data.get("graph", data)) on a decoded success body
GraphOf(data) ==
    IF IsArray(data) THEN Failed("AttributeError") ELSE FromModel(IntentGraph(Unwrap(data)))

\* XeroML.parse
XeroML_parse(res) ==
    LET r == _request(res)
    IN  IF r.raised THEN Raised(r.error) ELSE GraphOf(r.json)

\* Session.parse
Session_parse(res) ==
    LET r == _request(res)
    IN  IF r.raised THEN Raised(r.error) ELSE GraphOf(r.json)

\* Session.get_graph
Session_get_graph(res) ==
    LET r == _request(res)
    IN  IF r.raised THEN Raised(r.error) ELSE GraphOf(r.json)

\* Session.check_drift
Session_check_drift(res) ==
    LET r == _request(res)
    IN  IF r.raised THEN Raised(r.error)
        ELSE IF IsArray(r.json) THEN Failed("TypeError")
        ELSE FromModel(DriftReport(r.json))

(***************************************************************************)
(* The typed model layer behind the operations that decode a payload: the  *)
(* service answers 200 with a bounded payload in an accepted shape.        *)
(***************************************************************************)

\* the object d with key k set to v
With(d, k, v) == [x \in DOMAIN d \cup {k} |-> IF x = k THEN v ELSE d[x]]

\* the depth of nesting of `children` below a top-level sub-goal
MaxDepth == 2

BaseSubGoal == [id |-> "sg_001", goal |-> "Add OAuth2 support", priority |-> 5]

\* Sub-goals without children: the base, and the base with one of priority,
\* uncertainty, status set to an endpoint, a value just outside, a member or
\* a non-member.
Leaves ==
    {BaseSubGoal}
    \cup {With(BaseSubGoal, "priority", p) : p \in {-1, 0, 10, 11}}
    \cup {With(BaseSubGoal, "uncertainty", u) : u \in {-1, 0, 10, 11}}
    \cup {With(BaseSubGoal, "status", st) : st \in {"background", "paused", "background_task"}}

RECURSIVE Trees(_)
\* sub-goals nested to depth n, one child per level
Trees(n) ==
    IF n = 0 THEN Leaves
    ELSE Leaves \cup {With(l, "children", <<c>>) : l \in Leaves, c \in Trees(n - 1)}

BaseLatent == [goal_intent |-> "refactoring", action_readiness |-> "executing",
               ambiguity_level |-> "clear", risk_sensitivity |-> "medium",
               intent_scope |-> "compound"]

Latents ==
    {BaseLatent}
    \cup {With(BaseLatent, "action_readiness", v) : v \in {"exploring", "deciding", "pondering", "", "executing\n"}}
    \cup {With(BaseLatent, "ambiguity_level", v) : v \in {"partial", "conflicting", "vague"}}
    \cup {With(BaseLatent, "risk_sensitivity", v) : v \in {"low", "high", "extreme"}}
    \cup {With(BaseLatent, "intent_scope", v) : v \in {"single", "multi_step", "multi-step"}}

BaseMeta == [source |-> "user_input", confidence |-> 8, latent_states |-> BaseLatent]

Metas ==
    {BaseMeta, Restrict(BaseMeta, {"confidence", "latent_states"})}
    \cup {With(BaseMeta, "confidence", c) : c \in {-1, 0, 10, 11}}
    \cup {With(BaseMeta, "latent_states", l) : l \in Latents}

BaseGraph == [schema_version |-> "0.1.0", root_goal |-> "Refactor auth module",
              sub_goals |-> <<BaseSubGoal>>, meta |-> BaseMeta]

\* The graphs G: every nesting of sub-goals to MaxDepth under the base meta,
\* pairs of sub-goals and of children (the order matters), every meta under
\* the base sub-goal, a graph without schema_version, and a graph whose
\* root_goal is the empty string.
Graphs ==
    {With(BaseGraph, "sub_goals", <<t>>) : t \in Trees(MaxDepth)}
    \cup {With(BaseGraph, "sub_goals", <<a, b>>) : a \in Leaves, b \in Leaves}
    \cup {With(BaseGraph, "sub_goals", <<With(BaseSubGoal, "children", <<a, b>>)>>) :
            a \in Leaves, b \in Leaves}
    \cup {With(BaseGraph, "sub_goals", << >>)}
    \cup {With(BaseGraph, "meta", m) : m \in Metas}
    \cup {Restrict(BaseGraph, {"root_goal", "sub_goals", "meta"})}
    \cup {With(BaseGraph, "root_goal", "")}

BaseDrift == [detected |-> TRUE, drift_type |-> "scope_creep", severity |-> 6,
              description |-> "User added new requirement",
              previous_goal |-> "Refactor auth",
              current_goal |-> "Refactor auth + add payments"]

Drifts ==
    {With(BaseDrift, "severity", v) : v \in {-1, 0, 6, 10, 11, 15}}
    \cup {[detected |-> FALSE], [detected |-> TRUE, drift_type |-> "scope_creep"]}

\* the shapes in which a success body delivers a graph G
Shapes == {"nested", "nested_siblings", "top", "top_siblings"}

Wrap(shape, G) ==
    CASE shape = "nested" -> [graph |-> G]
      [] shape = "nested_siblings" ->
            [graph |-> G, request_id |-> "req_abc123", latency_ms |-> 150]
      [] shape = "top" -> G
      [] shape = "top_siblings" ->
            With(With(G, "request_id", "req_abc123"), "latency_ms", 150)

InitDecode ==
    /\ http_state = "open"
    /\ lifecycle = "constructed"
    /\ ahttp_state = "open"
    /\ ahandles = {}
    /\ alast = Idle
    /\ tasks = NoTasks
    /\ payload \in {[type |-> "graph", data |-> G] : G \in Graphs}
                   \cup {[type |-> "drift", data |-> D] : D \in Drifts}
    /\ decoded = Idle
    /\ status_code = 200
    /\ body = EmptyObj
    /\ raised = NotRaised
    /\ handles = {}
    /\ ended = {}
    /\ last = Idle

Ok(json) == [status |-> 200, json |-> json]

\* XeroML.parse answered 200 with the graph in one of the shapes
ParseOk(shape) ==
    /\ decoded = Idle
    /\ payload.type = "graph"
    /\ decoded' = [op |-> "parse", shape |-> shape,
                   outcome |-> XeroML_parse(Ok(Wrap(shape, payload.data)))]
    /\ UNCHANGED <<status_code, body, raised, payload, handles, ended, last,
                   restVars>>

\* Session.parse answered 200 with the graph in one of the shapes
SessionParseOk(shape) ==
    /\ decoded = Idle
    /\ payload.type = "graph"
    /\ decoded' = [op |-> "session_parse", shape |-> shape,
                   outcome |-> Session_parse(Ok(Wrap(shape, payload.data)))]
    /\ UNCHANGED <<status_code, body, raised, payload, handles, ended, last,
                   restVars>>

\* Session.get_graph answered 200 with the graph in one of the shapes
GetGraphOk(shape) ==
    /\ decoded = Idle
    /\ payload.type = "graph"
    /\ decoded' = [op |-> "get_graph", shape |-> shape,
                   outcome |-> Session_get_graph(Ok(Wrap(shape, payload.data)))]
    /\ UNCHANGED <<status_code, body, raised, payload, handles, ended, last,
                   restVars>>

\* Session.check_drift answered 200 with the drift payload
CheckDriftOk ==
    /\ decoded = Idle
    /\ payload.type = "drift"
    /\ decoded' = [op |-> "check_drift", shape |-> "top",
                   outcome |-> Session_check_drift(Ok(payload.data))]
    /\ UNCHANGED <<status_code, body, raised, payload, handles, ended, last,
                   restVars>>

NextDecode ==
    \/ \E shape \in Shapes : ParseOk(shape)
    \/ \E shape \in Shapes : SessionParseOk(shape)
    \/ \E shape \in Shapes : GetGraphOk(shape)
    \/ CheckDriftOk

SpecDecode == InitDecode /\ [][NextDecode]_vars

GraphOps == {"parse", "session_parse", "get_graph"}

Children(sg) == IF "children" \in DOMAIN sg THEN sg.children ELSE << >>

RECURSIVE SubGoalRangesInside(_)
\* priority and uncertainty of a raw sub-goal and of all below it lie in [0.0, 1.0]
SubGoalRangesInside(sg) ==
    /\ sg.priority \in 0..10
    /\ "uncertainty" \in DOMAIN sg => sg.uncertainty \in 0..10
    /\ \A i \in DOMAIN Children(sg) : SubGoalRangesInside(Children(sg)[i])

\* every range field of the raw graph G lies in [0.0, 1.0]
RangesInside(G) ==
    /\ G.meta.confidence \in 0..10
    /\ \A i \in DOMAIN G.sub_goals : SubGoalRangesInside(G.sub_goals[i])

StatusSet == {"pending", "active", "done", "blocked", "abandoned", "background"}

RECURSIVE SubGoalEnumsInside(_)
\* the status of a raw sub-goal and of all below it is absent or a member
SubGoalEnumsInside(sg) ==
    /\ "status" \in DOMAIN sg => sg.status \in StatusSet
    /\ \A i \in DOMAIN Children(sg) : SubGoalEnumsInside(Children(sg)[i])

\* every enumerated field of the raw graph G holds a member of its set
EnumsInside(G) ==
    /\ G.meta.latent_states.action_readiness \in {"exploring", "deciding", "executing"}
    /\ G.meta.latent_states.ambiguity_level \in {"clear", "partial", "conflicting"}
    /\ G.meta.latent_states.risk_sensitivity \in {"low", "medium", "high"}
    /\ G.meta.latent_states.intent_scope \in {"single", "compound", "multi_step"}
    /\ \A i \in DOMAIN G.sub_goals : SubGoalEnumsInside(G.sub_goals[i])

RECURSIVE StatusFilled(_, _)
\* the decoded sub-goal v carries the raw sub-goal's status, or pending when
\* the raw one has none, and so do all below it
StatusFilled(sg, v) ==
    /\ v.status = (IF "status" \in DOMAIN sg THEN sg.status ELSE "pending")
    /\ v.status \in StatusSet
    /\ Len(v.children) = Len(Children(sg))
    /\ \A i \in DOMAIN Children(sg) : StatusFilled(Children(sg)[i], v.children[i])

Range(seq) == {seq[i] : i \in DOMAIN seq}

\* the raw sub-goals two levels below the top-level sub-goals of G
DeepSubGoals(G) ==
    LET level1 == UNION {Range(Children(t)) : t \in Range(G.sub_goals)}
    IN  UNION {Range(Children(c)) : c \in level1}

\* C5: for every valid graph G, parse, session parse and get_graph answered
\* 2xx return one and the same IntentGraph value (G with the defaults filled
\* in) whether the body holds G under `graph`, with or without sibling
\* fields, or is G itself.
C5_DualShape ==
    (decoded.op \in GraphOps /\ RangesInside(payload.data) /\ EnumsInside(payload.data)) =>
        decoded.outcome = Returned(IntentGraph(payload.data).value)

\* get_graph returned a graph delivered under `graph`
C5_Witness ==
    /\ decoded.op = "get_graph"
    /\ decoded.shape = "nested"
    /\ decoded.outcome.kind = "value"
    /\ decoded.outcome.value.root_goal = "Refactor auth module"

\* C8: a graph is returned only if meta.confidence and every priority and
\* uncertainty at any depth lie in [0.0, 1.0]; a value outside in any of
\* them is a validation failure; and with every such value inside, the
\* endpoints 0.0 and 1.0 included, the graph is returned.
C8_UnitRanges ==
    decoded.op \in GraphOps =>
        /\ ~RangesInside(payload.data) => decoded.outcome.kind = "ValidationError"
        /\ (RangesInside(payload.data) /\ EnumsInside(payload.data)) =>
              decoded.outcome.kind = "value"

\* a graph with the endpoint 1.0 as a priority two levels down was returned
C8_Witness ==
    /\ decoded.op = "parse"
    /\ decoded.outcome.kind = "value"
    /\ \E sg \in DeepSubGoals(payload.data) : sg.priority = 10

\* C9: check_drift fails with a validation failure when severity is present
\* and outside [0.0, 1.0], and returns the report when severity is inside or
\* absent.
C9_SeverityRange ==
    decoded.op = "check_drift" =>
        IF "severity" \in DOMAIN payload.data /\ payload.data.severity \notin 0..10
        THEN decoded.outcome.kind = "ValidationError"
        ELSE decoded.outcome.kind = "value"

\* C10: a graph with a non-member in action_readiness, ambiguity_level,
\* risk_sensitivity, intent_scope or in a sub-goal's status at any depth is a
\* validation failure; with members everywhere (and ranges inside) the graph
\* is returned, each status as given and an absent status as pending.
C10_Enumerated ==
    decoded.op \in GraphOps =>
        /\ ~EnumsInside(payload.data) => decoded.outcome.kind = "ValidationError"
        /\ (RangesInside(payload.data) /\ EnumsInside(payload.data)) =>
              /\ decoded.outcome.kind = "value"
              /\ \A i \in DOMAIN payload.data.sub_goals :
                    StatusFilled(payload.data.sub_goals[i],
                                 decoded.outcome.value.sub_goals[i])

\* a graph with a non-member status two levels down was rejected
C10_Witness ==
    /\ decoded.op = "session_parse"
    /\ decoded.outcome.kind = "ValidationError"
    /\ RangesInside(payload.data)
    /\ \E sg \in DeepSubGoals(payload.data) :
          "status" \in DOMAIN sg /\ sg.status = "background_task"

\* C11: every IntentGraph that parse, session parse or get_graph returns has
\* a non-empty root_goal: a 2xx payload whose root_goal is the empty string
\* is a validation failure.
C11_RootGoalNonEmpty ==
    decoded.op \in GraphOps =>
        /\ decoded.outcome.kind = "value" => decoded.outcome.value.root_goal # ""
        /\ payload.data.root_goal = "" => decoded.outcome.kind = "ValidationError"

(***************************************************************************)
(* The remaining operations, and the requests the operations send.         *)
(***************************************************************************)

\* XeroML.create_session: the Session handle built from the response
XeroML_create_session(res) ==
    LET r == _request(res)
    IN  IF r.raised THEN Raised(r.error)
        ELSE IF IsArray(r.json) THEN Failed("TypeError")
        ELSE IF "session_id" \notin DOMAIN r.json THEN Failed("KeyError")
        ELSE Returned([session_id |-> r.json.session_id])

\* [SessionInfo(**s) for s in items]
SessionInfos(items) ==
    LET subs == [i \in DOMAIN items |-> SessionInfo(items[i])]
    IN  IF \A i \in DOMAIN subs : subs[i].ok
        THEN Returned([i \in DOMAIN subs |-> subs[i].value])
        ELSE Failed("ValidationError")

\* XeroML.list_sessions: res.json().get("sessions", res.json()); a list has
\* no get; an object without `sessions` is iterated by its keys
XeroML_list_sessions(res) ==
    LET r == _request(res)
    IN  IF r.raised THEN Raised(r.error)
        ELSE IF IsArray(r.json) THEN Failed("AttributeError")
        ELSE IF "sessions" \in DOMAIN r.json THEN SessionInfos(r.json.sessions)
        ELSE IF DOMAIN r.json = {} THEN Returned(<< >>)
        ELSE Failed("TypeError")

\* XeroML.get_usage
XeroML_get_usage(res) ==
    LET r == _request(res)
    IN  IF r.raised THEN Raised(r.error)
        ELSE IF IsArray(r.json) THEN Failed("TypeError")
        ELSE FromModel(UsageInfo(r.json))

\* Session.update
Session_update(res) ==
    LET r == _request(res)
    IN  IF r.raised THEN Raised(r.error) ELSE Returned(None)

\* Session.end
Session_end(res) ==
    LET r == _request(res)
    IN  IF r.raised THEN Raised(r.error) ELSE Returned(None)

\* the arguments of self._http.request: json is None when no json is passed
Request(method, path, json) == [method |-> method, path |-> path, json |-> json]

\* the body of parse with the provider added only when it is a non-empty string
ParseBody_Truthy(message, provider) ==
    IF provider # None /\ provider[1] # ""
    THEN [message |-> message, provider |-> provider[1]]
    ELSE [message |-> message]

\* the body of parse: provider only when one is passed (is not None)
ParseBody(message, provider) ==
    IF provider # None
    THEN [message |-> message, provider |-> provider[1]]
    ELSE [message |-> message]

XeroML_parse_request(message, provider) ==
    Request("POST", "/v1/parse", Some(ParseBody(message, provider)))

XeroML_create_session_request(session_id) ==
    Request("POST", "/v1/sessions",
            Some(IF session_id # None THEN [session_id |-> session_id[1]] ELSE EmptyObj))

XeroML_list_sessions_request == Request("GET", "/v1/sessions", None)

XeroML_get_usage_request == Request("GET", "/v1/usage", None)

Session_parse_request(session_id, message, provider) ==
    Request("POST", "/v1/sessions/" \o session_id \o "/parse",
            Some(ParseBody(message, provider)))

Session_update_request(session_id, response, role) ==
    Request("POST", "/v1/sessions/" \o session_id \o "/update",
            Some([response |-> response, role |-> role]))

Session_check_drift_request(session_id) ==
    Request("GET", "/v1/sessions/" \o session_id \o "/drift", None)

Session_get_graph_request(session_id) ==
    Request("GET", "/v1/sessions/" \o session_id \o "/graph", None)

Session_end_request(session_id) ==
    Request("POST", "/v1/sessions/" \o session_id \o "/end", Some(EmptyObj))

(***************************************************************************)
(* The client against the service. The service is the environment: it      *)
(* answers any call with any status and body of the bounded sets, except   *)
(* that a session it has ended (by a successful end, or on its own) is     *)
(* answered 409 on every request, and no other session is.                 *)
(***************************************************************************)

AllIds == {"sess_test123", "my_custom_id"}

Messages == {"Refactor auth module"}

Providers == {None, Some("openai"), Some("")}

SessionIdArgs == {None, Some("my_custom_id")}

Roles == {"assistant", "user"}

SuccessStatuses == {200, 299}

ErrorStatuses == {199, 300, 401, 404, 409, 500}

MainErrorBodies ==
    {[error |-> [code |-> "session_ended", message |-> "Already ended", status |-> 409]],
     [code |-> "internal_error", details |-> [credits_used |-> 100]],
     EmptyObj}

ErrorResponses ==
    {[status |-> st, json |-> b] : st \in ErrorStatuses, b \in MainErrorBodies}

\* what the service may answer to a call that is not on a session
Answers(bodies) ==
    ErrorResponses \cup {[status |-> st, json |-> b] : st \in SuccessStatuses, b \in bodies}

\* what the service may answer to a call on session sid
SessionAnswers(sid, bodies) ==
    IF sid \in ended
    THEN {r \in ErrorResponses : r.status = 409}
    ELSE {r \in Answers(bodies) : r.status # 409}

GraphBodies ==
    {Wrap(shape, G) : shape \in {"nested_siblings", "top"},
                      G \in {BaseGraph, With(BaseGraph, "meta", With(BaseMeta, "confidence", 11))}}

\* the service assigns or accepts only ids of sessions it has not ended
CreateBodies == {[session_id |-> id] : id \in AllIds \ ended} \cup {EmptyObj}

SessionRecord(id, n) ==
    [session_id |-> id, status |-> "active", turn_count |-> n,
     created_at |-> "2026-01-01T00:00:00Z", updated_at |-> "2026-01-01T00:01:00Z"]

SessionLists ==
    LET s1 == SessionRecord("s1", 2)
        s2 == SessionRecord("s2", 0)
    IN  {<< >>, <<s1>>, <<s1, s2>>, <<s2, s1>>,
         <<s1, [session_id |-> "s3", status |-> "active"]>>}

ListBodies ==
    {[sessions |-> S] : S \in SessionLists}
    \cup {[array |-> S] : S \in SessionLists}
    \cup {EmptyObj, [error |-> EmptyObj]}

UsageBodies ==
    {[credits |-> [used |-> 42, total |-> 100, remaining |-> 58], tier |-> "free",
      rate_limit |-> 100,
      usage |-> <<[month |-> "2026-02-01", parse_calls |-> 42, drift_checks |-> 0,
                   session_creates |-> 5, total_latency_ms |-> 1200]>>],
     [credits |-> [used |-> 42, total |-> 100, remaining |-> 58], tier |-> "free",
      rate_limit |-> 100],
     [credits_used |-> 42, credits_total |-> 100, plan |-> "free"]}

DriftBodies == {BaseDrift, [detected |-> FALSE], With(BaseDrift, "severity", 15)}

\* the requests of one call that sends again when the answer is a failure
Sent_RetryOnFailure(req, res) == IF is_success(res.status) THEN <<req>> ELSE <<req, req>>

\* the requests one call puts on the connection: _request calls
\* self._http.request once, in no loop, whatever the answer
Sent(req, res) == <<req>>

\* the record of a completed call
Call(op, handle, args, req, res, wasEnded, outcome) ==
    [op |-> op, handle |-> handle, args |-> args, request |-> req,
     sent |-> Sent(req, res), response |-> res,
     classified |-> _request(res).classified, wasEnded |-> wasEnded,
     outcome |-> outcome]

Init ==
    /\ http_state = "open"
    /\ lifecycle = "constructed"
    /\ ahttp_state = "open"
    /\ ahandles = {}
    /\ alast = Idle
    /\ tasks = NoTasks
    /\ handles = {}
    /\ ended = {}
    /\ last = Idle
    /\ status_code = 200
    /\ body = EmptyObj
    /\ raised = NotRaised
    /\ payload = EmptyObj
    /\ decoded = Idle

\* XeroML.parse(message, provider), answered res
parse(message, provider, res) ==
    /\ http_state = "open"
    /\ last' = Call("parse", None, [message |-> message, provider |-> provider],
                    XeroML_parse_request(message, provider), res, FALSE,
                    XeroML_parse(res))
    /\ UNCHANGED <<handles, ended, status_code, body, raised, payload,
                   decoded, restVars>>

\* XeroML.create_session(session_id), answered res: a returned Session is a
\* new handle of the caller
create_session(session_id, res) ==
    LET outcome == XeroML_create_session(res)
    IN  /\ http_state = "open"
        /\ last' = Call("create_session", None, [session_id |-> session_id],
                        XeroML_create_session_request(session_id), res, FALSE, outcome)
        /\ handles' = IF outcome.kind = "value"
                      THEN handles \cup {outcome.value.session_id} ELSE handles
        /\ UNCHANGED <<ended, status_code, body, raised, payload, decoded,
                       restVars>>

\* XeroML.list_sessions(), answered res
list_sessions(res) ==
    /\ http_state = "open"
    /\ last' = Call("list_sessions", None, EmptyObj, XeroML_list_sessions_request,
                    res, FALSE, XeroML_list_sessions(res))
    /\ UNCHANGED <<handles, ended, status_code, body, raised, payload,
                   decoded, restVars>>

\* XeroML.get_usage(), answered res
get_usage(res) ==
    /\ http_state = "open"
    /\ last' = Call("get_usage", None, EmptyObj, XeroML_get_usage_request,
                    res, FALSE, XeroML_get_usage(res))
    /\ UNCHANGED <<handles, ended, status_code, body, raised, payload,
                   decoded, restVars>>

\* Session.parse(message, provider) on the handle h, answered res
session_parse(h, message, provider, res) ==
    /\ http_state = "open"
    /\ last' = Call("session_parse", Some(h), [message |-> message, provider |-> provider],
                    Session_parse_request(h, message, provider), res, h \in ended,
                    Session_parse(res))
    /\ UNCHANGED <<handles, ended, status_code, body, raised, payload,
                   decoded, restVars>>

\* Session.update(response, role) on the handle h, answered res
session_update(h, response, role, res) ==
    /\ http_state = "open"
    /\ last' = Call("update", Some(h), [response |-> response, role |-> role],
                    Session_update_request(h, response, role), res, h \in ended,
                    Session_update(res))
    /\ UNCHANGED <<handles, ended, status_code, body, raised, payload,
                   decoded, restVars>>

\* Session.check_drift() on the handle h, answered res
session_check_drift(h, res) ==
    /\ http_state = "open"
    /\ last' = Call("check_drift", Some(h), EmptyObj, Session_check_drift_request(h),
                    res, h \in ended, Session_check_drift(res))
    /\ UNCHANGED <<handles, ended, status_code, body, raised, payload,
                   decoded, restVars>>

\* Session.get_graph() on the handle h, answered res
session_get_graph(h, res) ==
    /\ http_state = "open"
    /\ last' = Call("get_graph", Some(h), EmptyObj, Session_get_graph_request(h),
                    res, h \in ended, Session_get_graph(res))
    /\ UNCHANGED <<handles, ended, status_code, body, raised, payload,
                   decoded, restVars>>

\* Session.end() on the handle h, answered res: a success response is the
\* service ending the session
session_end(h, res) ==
    /\ http_state = "open"
    /\ last' = Call("end", Some(h), EmptyObj, Session_end_request(h),
                    res, h \in ended, Session_end(res))
    /\ ended' = IF is_success(res.status) THEN ended \cup {h} ELSE ended
    /\ UNCHANGED <<handles, status_code, body, raised, payload, decoded, restVars>>

\* XeroML.close: self._http.close()
XeroML_close(http) == "closed"

\* XeroML.__enter__: return self
XeroML_enter(http) == http

\* XeroML.__exit__ closing only when the block raised nothing
XeroML_exit_OnlyOnSuccess(http, exc) == IF exc = None THEN XeroML_close(http) ELSE http

\* XeroML.__exit__(*args): self.close(), whatever the arguments; it returns
\* None, so a failure raised in the block goes on to the caller
XeroML_exit(http, exc) == XeroML_close(http)

\* what a with block is left with: nothing, or a failure raised inside it
ExitExceptions == {None, Some("XeroMLError"), Some("ValidationError"), Some("KeyError")}

\* client.close(), outside or inside a with block. The operations above are
\* calls on an open connection: what httpx does with a request on a closed
\* client is not part of src/xeroml.
close ==
    /\ lifecycle \in {"constructed", "inside"}
    /\ http_state' = XeroML_close(http_state)
    /\ lifecycle' = IF lifecycle = "constructed" THEN "closed" ELSE lifecycle
    /\ UNCHANGED <<handles, ended, last, status_code, body, raised, payload, decoded,
                   asyncVars>>

\* with XeroML(...) as client: the block is entered
enter ==
    /\ lifecycle = "constructed"
    /\ http_state' = XeroML_enter(http_state)
    /\ lifecycle' = "inside"
    /\ UNCHANGED <<handles, ended, last, status_code, body, raised, payload, decoded,
                   asyncVars>>

\* the with block is left, normally (exc is None) or by a failure raised in it
exit(exc) ==
    /\ lifecycle = "inside"
    /\ http_state' = XeroML_exit(http_state, exc)
    /\ lifecycle' = IF exc = None THEN "exited" ELSE "exited_raising"
    /\ UNCHANGED <<handles, ended, last, status_code, body, raised, payload, decoded,
                   asyncVars>>

\* the service ends a session on its own (another client, expiry)
ServiceEndsSession(sid) ==
    /\ sid \notin ended
    /\ ended' = ended \cup {sid}
    /\ UNCHANGED <<handles, last, status_code, body, raised, payload,
                   decoded, restVars>>

Next ==
    \/ \E m \in Messages, p \in Providers, res \in Answers(GraphBodies) :
          parse(m, p, res)
    \/ \E sid \in SessionIdArgs, res \in Answers(CreateBodies) :
          create_session(sid, res)
    \/ \E res \in Answers(ListBodies) : list_sessions(res)
    \/ \E res \in Answers(UsageBodies) : get_usage(res)
    \/ \E h \in handles, m \in Messages, p \in Providers :
          \E res \in SessionAnswers(h, GraphBodies) : session_parse(h, m, p, res)
    \/ \E h \in handles, m \in Messages, role \in Roles :
          \E res \in SessionAnswers(h, {EmptyObj}) : session_update(h, m, role, res)
    \/ \E h \in handles :
          \E res \in SessionAnswers(h, DriftBodies) : session_check_drift(h, res)
    \/ \E h \in handles :
          \E res \in SessionAnswers(h, GraphBodies) : session_get_graph(h, res)
    \/ \E h \in handles :
          \E res \in SessionAnswers(h, {EmptyObj}) : session_end(h, res)
    \/ \E sid \in handles : ServiceEndsSession(sid)
    \/ close
    \/ enter
    \/ \E exc \in ExitExceptions : exit(exc)

Spec == Init /\ [][Next]_vars

SessionOps == {"session_parse", "update", "check_drift", "get_graph", "end"}

\* C2: every facade and session operation whose response status is outside
\* [200,300) raises exactly the failure the classifier produces for that
\* status and body, and returns no value; with a status inside [200,300) the
\* classifier is not invoked and no XeroMLError is raised.
C2_ClassifierOnNonSuccess ==
    last.op # "none" =>
        IF last.response.status \in 200..299
        THEN /\ ~last.classified
             /\ last.outcome.kind # "XeroMLError"
        ELSE /\ last.classified
             /\ last.outcome = Raised(raise_for_status(last.response.status,
                                                       last.response.json))

\* update answered 300, just above the success range, raised the generic failure
C2_Witness ==
    /\ last.op = "update"
    /\ last.response.status = 300
    /\ last.outcome.kind = "XeroMLError"
    /\ last.outcome.error.cls = "XeroMLError"
    /\ last.outcome.error.status = 300

\* the sessions a list_sessions success body delivers, in either shape
Delivered(json) == IF IsArray(json) THEN json.array ELSE json.sessions

\* C4: list_sessions answered 2xx with a sequence S of valid session records
\* returns the list of SessionInfo of S, in order, whether the body is
\* {"sessions": S} or the bare sequence S; neither shape raises.
C4_BothListShapes ==
    (/\ last.op = "list_sessions"
     /\ last.response.status \in 200..299
     /\ (IsArray(last.response.json) \/ "sessions" \in DOMAIN last.response.json)
     /\ \A i \in DOMAIN Delivered(last.response.json) :
           DOMAIN Delivered(last.response.json)[i] =
               {"session_id", "status", "turn_count", "created_at", "updated_at"})
    => /\ last.outcome.kind = "value"
       /\ Len(last.outcome.value) = Len(Delivered(last.response.json))
       /\ \A i \in DOMAIN Delivered(last.response.json) :
             last.outcome.value[i] = Delivered(last.response.json)[i]

\* C6: against a service that answers 409 on every request on a session it
\* has ended, every session operation (parse, update, check_drift, get_graph,
\* end) on a handle whose session the service had ended raises SessionEnded
\* (status 409, code session_ended); an end() on a session not yet ended that
\* the service accepts returns normally, and the session is then ended.
C6_SessionEndedAfterEnd ==
    last.op \in SessionOps =>
        /\ last.wasEnded =>
              /\ last.outcome.kind = "XeroMLError"
              /\ last.outcome.error.cls = "SessionEndedError"
              /\ last.outcome.error.status = 409
              /\ last.outcome.error.code = "session_ended"
        /\ (last.op = "end" /\ ~last.wasEnded /\ last.response.status \in 200..299) =>
              /\ last.outcome = Returned(None)
              /\ last.handle[1] \in ended

\* a second end() on an ended session raised SessionEnded
C6_Witness ==
    /\ last.op = "end"
    /\ last.wasEnded
    /\ last.outcome.kind = "XeroMLError"
    /\ last.outcome.error.cls = "SessionEndedError"

\* C7: create_session with a caller-supplied id X sends session_id = X and
\* returns a Session whose session_id is X; with no id it sends an empty body
\* and the Session's session_id is the id of the response.
C7_CallerIdVerbatim ==
    (last.op = "create_session" /\ last.outcome.kind = "value") =>
        IF last.args.session_id # None
        THEN /\ last.request.json = Some([session_id |-> last.args.session_id[1]])
             /\ last.outcome.value.session_id = last.args.session_id[1]
        ELSE /\ last.request.json = Some(EmptyObj)
             /\ last.outcome.value.session_id = last.response.json.session_id

\* C14: the request body of parse, on the facade and on a session, has the
\* key provider exactly when the caller passed one: {message} with none
\* (never a null provider), {message, provider} with one, the empty string
\* included.
C14_ProviderKey ==
    last.op \in {"parse", "session_parse"} =>
        LET sentBody == last.request.json[1]
            provider == last.args.provider
        IN  /\ last.request.json # None
            /\ ("provider" \in DOMAIN sentBody) <=> (provider # None)
            /\ provider = None => sentBody = [message |-> last.args.message]
            /\ provider # None =>
                   sentBody = [message |-> last.args.message, provider |-> provider[1]]

\* a session parse with no provider sent a body of the message alone
C14_Witness ==
    /\ last.op = "session_parse"
    /\ last.args.provider = None
    /\ DOMAIN last.request.json[1] = {"message"}

\* the path segment of each session operation
Suffix(op) ==
    CASE op = "session_parse" -> "/parse"
      [] op = "update"        -> "/update"
      [] op = "check_drift"   -> "/drift"
      [] op = "get_graph"     -> "/graph"
      [] op = "end"           -> "/end"

\* what each session operation makes of a response
SessionOutcome(op, res) ==
    CASE op = "session_parse" -> Session_parse(res)
      [] op = "update"        -> Session_update(res)
      [] op = "check_drift"   -> Session_check_drift(res)
      [] op = "get_graph"     -> Session_get_graph(res)
      [] op = "end"           -> Session_end(res)

\* C15: a session operation, whatever came before on its handle (a
\* successful end, a SessionEnded failure), puts exactly one request on the
\* connection, under /v1/sessions/{session_id}/ with the session_id of the
\* handle; its outcome is the one its response gives; and the caller's
\* handles are never dropped or renamed.
C15_OneRequestNoLocalLifecycle ==
    /\ [](last.op \in SessionOps =>
            /\ Len(last.sent) = 1
            /\ last.sent[1] = last.request
            /\ last.handle[1] \in handles
            /\ last.request.path = "/v1/sessions/" \o last.handle[1] \o Suffix(last.op)
            /\ last.outcome = SessionOutcome(last.op, last.response))
    /\ [][handles \subseteq handles']_vars

\* a call on a session already ended went to the service once and raised
\* what the service answered
C15_Witness ==
    /\ last.op = "update"
    /\ last.wasEnded
    /\ Len(last.sent) = 1
    /\ last.response.status = 409
    /\ last.outcome.kind = "XeroMLError"

(***************************************************************************)
(* The suspending client: AsyncXeroML and AsyncSession. Each operation is  *)
(* translated from its own coroutine; an await of the request is the point *)
(* where the response arrives.                                             *)
(***************************************************************************)

\* AsyncXeroML._request: res = await self._http.request(...), then the
\* classifier on a non-success response
AsyncXeroML_request(res) ==
    IF ~is_success(res.status)
    THEN [raised |-> TRUE, classified |-> TRUE,
          error |-> raise_for_status(res.status, res.json)]
    ELSE [raised |-> FALSE, classified |-> FALSE, json |-> res.json]

\* AsyncXeroML.parse
AsyncXeroML_parse(res) ==
    LET r == AsyncXeroML_request(res)
    IN  IF r.raised THEN Raised(r.error) ELSE GraphOf(r.json)

\* AsyncXeroML.create_session
AsyncXeroML_create_session(res) ==
    LET r == AsyncXeroML_request(res)
    IN  IF r.raised THEN Raised(r.error)
        ELSE IF IsArray(r.json) THEN Failed("TypeError")
        ELSE IF "session_id" \notin DOMAIN r.json THEN Failed("KeyError")
        ELSE Returned([session_id |-> r.json.session_id])

\* AsyncXeroML.list_sessions that takes a bare array as the list
AsyncXeroML_list_sessions_BothShapes(res) ==
    LET r == AsyncXeroML_request(res)
    IN  IF r.raised THEN Raised(r.error)
        ELSE IF IsArray(r.json) THEN SessionInfos(r.json.array)
        ELSE IF "sessions" \in DOMAIN r.json THEN SessionInfos(r.json.sessions)
        ELSE IF DOMAIN r.json = {} THEN Returned(<< >>)
        ELSE Failed("TypeError")

\* AsyncXeroML.list_sessions
AsyncXeroML_list_sessions(res) ==
    LET r == AsyncXeroML_request(res)
    IN  IF r.raised THEN Raised(r.error)
        ELSE IF IsArray(r.json) THEN Failed("AttributeError")
        ELSE IF "sessions" \in DOMAIN r.json THEN SessionInfos(r.json.sessions)
        ELSE IF DOMAIN r.json = {} THEN Returned(<< >>)
        ELSE Failed("TypeError")

\* AsyncXeroML.get_usage
AsyncXeroML_get_usage(res) ==
    LET r == AsyncXeroML_request(res)
    IN  IF r.raised THEN Raised(r.error)
        ELSE IF IsArray(r.json) THEN Failed("TypeError")
        ELSE FromModel(UsageInfo(r.json))

\* AsyncSession.parse
AsyncSession_parse(res) ==
    LET r == AsyncXeroML_request(res)
    IN  IF r.raised THEN Raised(r.error) ELSE GraphOf(r.json)

\* AsyncSession.update
AsyncSession_update(res) ==
    LET r == AsyncXeroML_request(res)
    IN  IF r.raised THEN Raised(r.error) ELSE Returned(None)

\* AsyncSession.check_drift
AsyncSession_check_drift(res) ==
    LET r == AsyncXeroML_request(res)
    IN  IF r.raised THEN Raised(r.error)
        ELSE IF IsArray(r.json) THEN Failed("TypeError")
        ELSE FromModel(DriftReport(r.json))

\* AsyncSession.get_graph
AsyncSession_get_graph(res) ==
    LET r == AsyncXeroML_request(res)
    IN  IF r.raised THEN Raised(r.error) ELSE GraphOf(r.json)

\* AsyncSession.end
AsyncSession_end(res) ==
    LET r == AsyncXeroML_request(res)
    IN  IF r.raised THEN Raised(r.error) ELSE Returned(None)

AsyncXeroML_parse_request(message, provider) ==
    Request("POST", "/v1/parse",
            Some(IF provider # None
                 THEN [message |-> message, provider |-> provider[1]]
                 ELSE [message |-> message]))

AsyncXeroML_create_session_request(session_id) ==
    Request("POST", "/v1/sessions",
            Some(IF session_id # None THEN [session_id |-> session_id[1]] ELSE EmptyObj))

AsyncXeroML_list_sessions_request == Request("GET", "/v1/sessions", None)

AsyncXeroML_get_usage_request == Request("GET", "/v1/usage", None)

AsyncSession_parse_request(session_id, message, provider) ==
    Request("POST", "/v1/sessions/" \o session_id \o "/parse",
            Some(IF provider # None
                 THEN [message |-> message, provider |-> provider[1]]
                 ELSE [message |-> message]))

AsyncSession_update_request(session_id, response, role) ==
    Request("POST", "/v1/sessions/" \o session_id \o "/update",
            Some([response |-> response, role |-> role]))

AsyncSession_check_drift_request(session_id) ==
    Request("GET", "/v1/sessions/" \o session_id \o "/drift", None)

AsyncSession_get_graph_request(session_id) ==
    Request("GET", "/v1/sessions/" \o session_id \o "/graph", None)

AsyncSession_end_request(session_id) ==
    Request("POST", "/v1/sessions/" \o session_id \o "/end", Some(EmptyObj))

\* AsyncXeroML.close: await self._http.aclose()
AsyncXeroML_close(http) == "closed"

\* AsyncXeroML.__aenter__: return self
AsyncXeroML_aenter(http) == http

\* AsyncXeroML.__aexit__(*args): await self.close()
AsyncXeroML_aexit(http, exc) == AsyncXeroML_close(http)

\* the record of a completed call of the suspending client; sent is the one
\* request that AsyncXeroML._request awaits
AsyncCall(op, handle, args, req, res, wasEnded, outcome) ==
    [op |-> op, handle |-> handle, args |-> args, request |-> req,
     sent |-> <<req>>, response |-> res,
     classified |-> AsyncXeroML_request(res).classified, wasEnded |-> wasEnded,
     outcome |-> outcome]

(***************************************************************************)
(* The two clients side by side. One caller program drives a XeroML and an *)
(* AsyncXeroML with the same operations and arguments, and the service     *)
(* gives both the same answer at every step.                               *)
(***************************************************************************)

\* the variables of the classifier and of the decoder, unused here
pureVars == <<status_code, body, raised, payload, decoded>>

both_parse(message, provider, res) ==
    /\ http_state = "open" /\ ahttp_state = "open"
    /\ last' = Call("parse", None, [message |-> message, provider |-> provider],
                    XeroML_parse_request(message, provider), res, FALSE,
                    XeroML_parse(res))
    /\ alast' = AsyncCall("parse", None, [message |-> message, provider |-> provider],
                          AsyncXeroML_parse_request(message, provider), res, FALSE,
                          AsyncXeroML_parse(res))
    /\ UNCHANGED <<handles, ahandles, ended, http_state, ahttp_state, lifecycle,
                   tasks, pureVars>>

both_create_session(session_id, res) ==
    LET outcome == XeroML_create_session(res)
        aoutcome == AsyncXeroML_create_session(res)
    IN  /\ http_state = "open" /\ ahttp_state = "open"
        /\ last' = Call("create_session", None, [session_id |-> session_id],
                        XeroML_create_session_request(session_id), res, FALSE, outcome)
        /\ alast' = AsyncCall("create_session", None, [session_id |-> session_id],
                              AsyncXeroML_create_session_request(session_id), res,
                              FALSE, aoutcome)
        /\ handles' = IF outcome.kind = "value"
                      THEN handles \cup {outcome.value.session_id} ELSE handles
        /\ ahandles' = IF aoutcome.kind = "value"
                       THEN ahandles \cup {aoutcome.value.session_id} ELSE ahandles
        /\ UNCHANGED <<ended, http_state, ahttp_state, lifecycle, tasks, pureVars>>

both_list_sessions(res) ==
    /\ http_state = "open" /\ ahttp_state = "open"
    /\ last' = Call("list_sessions", None, EmptyObj, XeroML_list_sessions_request,
                    res, FALSE, XeroML_list_sessions(res))
    /\ alast' = AsyncCall("list_sessions", None, EmptyObj,
                          AsyncXeroML_list_sessions_request, res, FALSE,
                          AsyncXeroML_list_sessions(res))
    /\ UNCHANGED <<handles, ahandles, ended, http_state, ahttp_state, lifecycle,
                   tasks, pureVars>>

both_get_usage(res) ==
    /\ http_state = "open" /\ ahttp_state = "open"
    /\ last' = Call("get_usage", None, EmptyObj, XeroML_get_usage_request,
                    res, FALSE, XeroML_get_usage(res))
    /\ alast' = AsyncCall("get_usage", None, EmptyObj, AsyncXeroML_get_usage_request,
                          res, FALSE, AsyncXeroML_get_usage(res))
    /\ UNCHANGED <<handles, ahandles, ended, http_state, ahttp_state, lifecycle,
                   tasks, pureVars>>

both_session_parse(h, message, provider, res) ==
    /\ http_state = "open" /\ ahttp_state = "open"
    /\ last' = Call("session_parse", Some(h), [message |-> message, provider |-> provider],
                    Session_parse_request(h, message, provider), res, h \in ended,
                    Session_parse(res))
    /\ alast' = AsyncCall("session_parse", Some(h),
                          [message |-> message, provider |-> provider],
                          AsyncSession_parse_request(h, message, provider), res,
                          h \in ended, AsyncSession_parse(res))
    /\ UNCHANGED <<handles, ahandles, ended, http_state, ahttp_state, lifecycle,
                   tasks, pureVars>>

both_session_update(h, response, role, res) ==
    /\ http_state = "open" /\ ahttp_state = "open"
    /\ last' = Call("update", Some(h), [response |-> response, role |-> role],
                    Session_update_request(h, response, role), res, h \in ended,
                    Session_update(res))
    /\ alast' = AsyncCall("update", Some(h), [response |-> response, role |-> role],
                          AsyncSession_update_request(h, response, role), res,
                          h \in ended, AsyncSession_update(res))
    /\ UNCHANGED <<handles, ahandles, ended, http_state, ahttp_state, lifecycle,
                   tasks, pureVars>>

both_session_check_drift(h, res) ==
    /\ http_state = "open" /\ ahttp_state = "open"
    /\ last' = Call("check_drift", Some(h), EmptyObj, Session_check_drift_request(h),
                    res, h \in ended, Session_check_drift(res))
    /\ alast' = AsyncCall("check_drift", Some(h), EmptyObj,
                          AsyncSession_check_drift_request(h), res, h \in ended,
                          AsyncSession_check_drift(res))
    /\ UNCHANGED <<handles, ahandles, ended, http_state, ahttp_state, lifecycle,
                   tasks, pureVars>>

both_session_get_graph(h, res) ==
    /\ http_state = "open" /\ ahttp_state = "open"
    /\ last' = Call("get_graph", Some(h), EmptyObj, Session_get_graph_request(h),
                    res, h \in ended, Session_get_graph(res))
    /\ alast' = AsyncCall("get_graph", Some(h), EmptyObj,
                          AsyncSession_get_graph_request(h), res, h \in ended,
                          AsyncSession_get_graph(res))
    /\ UNCHANGED <<handles, ahandles, ended, http_state, ahttp_state, lifecycle,
                   tasks, pureVars>>

both_session_end(h, res) ==
    /\ http_state = "open" /\ ahttp_state = "open"
    /\ last' = Call("end", Some(h), EmptyObj, Session_end_request(h),
                    res, h \in ended, Session_end(res))
    /\ alast' = AsyncCall("end", Some(h), EmptyObj, AsyncSession_end_request(h),
                          res, h \in ended, AsyncSession_end(res))
    /\ ended' = IF is_success(res.status) THEN ended \cup {h} ELSE ended
    /\ UNCHANGED <<handles, ahandles, http_state, ahttp_state, lifecycle,
                   tasks, pureVars>>

\* client.close() and await aclient.close()
both_close ==
    /\ lifecycle \in {"constructed", "inside"}
    /\ http_state' = XeroML_close(http_state)
    /\ ahttp_state' = AsyncXeroML_close(ahttp_state)
    /\ lifecycle' = IF lifecycle = "constructed" THEN "closed" ELSE lifecycle
    /\ UNCHANGED <<handles, ahandles, ended, last, alast, tasks, pureVars>>

\* with XeroML(...) and async with AsyncXeroML(...): the blocks are entered
both_enter ==
    /\ lifecycle = "constructed"
    /\ http_state' = XeroML_enter(http_state)
    /\ ahttp_state' = AsyncXeroML_aenter(ahttp_state)
    /\ lifecycle' = "inside"
    /\ UNCHANGED <<handles, ahandles, ended, last, alast, tasks, pureVars>>

\* the blocks are left, normally or by the failure exc raised inside
both_exit(exc) ==
    /\ lifecycle = "inside"
    /\ http_state' = XeroML_exit(http_state, exc)
    /\ ahttp_state' = AsyncXeroML_aexit(ahttp_state, exc)
    /\ lifecycle' = IF exc = None THEN "exited" ELSE "exited_raising"
    /\ UNCHANGED <<handles, ahandles, ended, last, alast, tasks, pureVars>>

NextEquiv ==
    \/ \E m \in Messages, p \in Providers, res \in Answers(GraphBodies) :
          both_parse(m, p, res)
    \/ \E sid \in SessionIdArgs, res \in Answers(CreateBodies) :
          both_create_session(sid, res)
    \/ \E res \in Answers(ListBodies) : both_list_sessions(res)
    \/ \E res \in Answers(UsageBodies) : both_get_usage(res)
    \/ \E h \in handles \cap ahandles, m \in Messages, p \in Providers :
          \E res \in SessionAnswers(h, GraphBodies) : both_session_parse(h, m, p, res)
    \/ \E h \in handles \cap ahandles, m \in Messages, role \in Roles :
          \E res \in SessionAnswers(h, {EmptyObj}) : both_session_update(h, m, role, res)
    \/ \E h \in handles \cap ahandles :
          \E res \in SessionAnswers(h, DriftBodies) : both_session_check_drift(h, res)
    \/ \E h \in handles \cap ahandles :
          \E res \in SessionAnswers(h, GraphBodies) : both_session_get_graph(h, res)
    \/ \E h \in handles \cap ahandles :
          \E res \in SessionAnswers(h, {EmptyObj}) : both_session_end(h, res)
    \/ \E sid \in handles \cup ahandles : ServiceEndsSession(sid)
    \/ both_close
    \/ both_enter
    \/ \E exc \in ExitExceptions : both_exit(exc)

SpecEquiv == Init /\ [][NextEquiv]_vars

\* the public operations of XeroML and Session
Operations ==
    [facade |-> {"parse", "create_session", "list_sessions", "get_usage", "close",
                 "enter", "exit"},
     session |-> {"parse", "update", "check_drift", "get_graph", "end"}]

\* the public operations of AsyncXeroML and AsyncSession (__aenter__ and
\* __aexit__ are the enter and exit of async with)
AsyncOperations ==
    [facade |-> {"parse", "create_session", "list_sessions", "get_usage", "close",
                 "enter", "exit"},
     session |-> {"parse", "update", "check_drift", "get_graph", "end"}]

\* C13: driven by the same operations with the same arguments and given the
\* same answers, XeroML/Session and AsyncXeroML/AsyncSession have sent the
\* same requests (method, path, body), produced the same result or the same
\* typed failure, hold the same session ids and connection state; and both
\* have the same operations.
C13_SyncAsyncEquivalent ==
    /\ alast = last
    /\ ahandles = handles
    /\ ahttp_state = http_state
    /\ AsyncOperations = Operations

\* both clients made a session parse that returned the same graph
C13_Witness ==
    /\ last.op = "session_parse"
    /\ alast.op = "session_parse"
    /\ last.outcome.kind = "value"
    /\ alast.outcome = last.outcome
    /\ alast.sent = last.sent

\* C12: the connection of each facade (XeroML, AsyncXeroML) is closed once
\* close() was called and once its with / async with block was left, normally
\* or by a failure raised inside it; and no Session or AsyncSession
\* operation, whether it returns or raises, changes the state of its facade's
\* connection.
C12_ConnectionReleased ==
    /\ [](lifecycle \in {"closed", "exited", "exited_raising"} =>
              (http_state = "closed" /\ ahttp_state = "closed"))
    /\ [][(last' # last /\ last'.op \in SessionOps) =>
              (http_state = "open" /\ http_state' = "open")]_vars
    /\ [][(alast' # alast /\ alast'.op \in SessionOps) =>
              (ahttp_state = "open" /\ ahttp_state' = "open")]_vars

\* the blocks were left by a failure after a session call raised in them
C12_Witness ==
    /\ lifecycle = "exited_raising"
    /\ http_state = "closed"
    /\ ahttp_state = "closed"
    /\ last.op \in SessionOps
    /\ last.outcome.kind = "XeroMLError"
    /\ alast.outcome.kind = "XeroMLError"

(***************************************************************************)
(* Coroutines calling at the same time through one AsyncXeroML, directly   *)
(* and through the AsyncSessions created from it. A call is three steps:   *)
(* the request is handed to the connection pool, where the coroutine       *)
(* suspends (await self._http.request); the service answers; the coroutine *)
(* resumes with the response. The steps of different calls interleave      *)
(* freely, and the service answers in any order.                           *)
(***************************************************************************)

Tasks == {"t1", "t2"}

\* the operations the coroutines call: one on the facade, two on sessions
TaskOps == {"parse", "update", "end"}

\* the handle a call goes through: none for the facade
TaskHandles(op) == IF op = "parse" THEN {None} ELSE {Some(h) : h \in ahandles}

\* the request of a call, built by the coroutine before it suspends
TaskRequest(op, handle) ==
    CASE op = "parse"  -> AsyncXeroML_parse_request("Refactor auth module", None)
      [] op = "update" -> AsyncSession_update_request(handle[1], "Refactor auth module",
                                                      "assistant")
      [] op = "end"    -> AsyncSession_end_request(handle[1])

\* what the coroutine makes of the response it resumes with
TaskOutcome(op, res) ==
    CASE op = "parse"  -> AsyncXeroML_parse(res)
      [] op = "update" -> AsyncSession_update(res)
      [] op = "end"    -> AsyncSession_end(res)

\* what the service may answer to a call in flight: status 200, 409 or 500,
\* a failure with the one body that has an error object
TaskAnswers(op, handle) ==
    {r \in (IF op = "parse" THEN Answers(GraphBodies)
                            ELSE SessionAnswers(handle[1], {EmptyObj})) :
        /\ r.status \in {200, 409, 500}
        /\ is_success(r.status) \/ "error" \in DOMAIN r.json}

\* a coroutine that resumes with the response another call received last
ResponseOf_Shared(ts, t) ==
    LET others == {u \in DOMAIN ts : u # t /\ ts[u].phase \in {"answered", "done"}}
    IN  IF others = {} THEN ts[t].response ELSE ts[CHOOSE u \in others : TRUE].response

\* res = await self._http.request(...): the response of the coroutine's own
\* request, held in a local variable of the coroutine
ResponseOf(ts, t) == ts[t].response

\* whether another call is in flight
InFlight(ts, t) == \E u \in DOMAIN ts : u # t /\ ts[u].phase \in {"sent", "answered"}

InitAsync ==
    /\ status_code = 200
    /\ body = EmptyObj
    /\ raised = NotRaised
    /\ payload = Idle
    /\ decoded = Idle
    /\ handles = {}
    /\ last = Idle
    /\ http_state = "open"
    /\ lifecycle = "constructed"
    /\ ahttp_state = "open"
    /\ ahandles = AllIds
    /\ alast = Idle
    /\ ended = {}
    /\ tasks = [t \in Tasks |-> [phase |-> "idle"]]

\* the coroutine t calls op: the request goes to the pool and t suspends;
\* nothing of the client holds it back while other calls are in flight
Send(t, op, handle) ==
    /\ ahttp_state = "open"
    /\ tasks[t].phase \in {"idle", "done"}
    /\ tasks' = [tasks EXCEPT ![t] =
                    [phase |-> "sent", op |-> op, handle |-> handle,
                     request |-> TaskRequest(op, handle),
                     overlapped |-> InFlight(tasks, t)]]
    /\ UNCHANGED <<ahttp_state, ahandles, alast, ended, handles, last, http_state,
                   lifecycle, pureVars>>

\* the service answers the request of t; a successful end ends the session
Respond(t, res) ==
    /\ tasks[t].phase = "sent"
    /\ tasks' = [tasks EXCEPT ![t] =
                    [phase |-> "answered", op |-> tasks[t].op,
                     handle |-> tasks[t].handle, request |-> tasks[t].request,
                     overlapped |-> tasks[t].overlapped \/ InFlight(tasks, t),
                     response |-> res]]
    /\ ended' = IF tasks[t].op = "end" /\ is_success(res.status)
                THEN ended \cup {tasks[t].handle[1]} ELSE ended
    /\ UNCHANGED <<ahttp_state, ahandles, alast, handles, last, http_state,
                   lifecycle, pureVars>>

\* the coroutine t resumes: _request classifies its response and the
\* operation returns or raises
Resume(t) ==
    /\ tasks[t].phase = "answered"
    /\ tasks' = [tasks EXCEPT ![t] =
                    [phase |-> "done", op |-> tasks[t].op,
                     handle |-> tasks[t].handle, request |-> tasks[t].request,
                     overlapped |-> tasks[t].overlapped,
                     response |-> tasks[t].response,
                     outcome |-> TaskOutcome(tasks[t].op, ResponseOf(tasks, t))]]
    /\ UNCHANGED <<ahttp_state, ahandles, alast, ended, handles, last, http_state,
                   lifecycle, pureVars>>

NextAsync ==
    \/ \E t \in Tasks, op \in TaskOps : \E handle \in TaskHandles(op) : Send(t, op, handle)
    \/ \E t \in Tasks :
          \E res \in (IF tasks[t].phase = "sent"
                      THEN TaskAnswers(tasks[t].op, tasks[t].handle) ELSE {}) :
              Respond(t, res)
    \/ \E t \in Tasks : Resume(t)

SpecAsync == InitAsync /\ [][NextAsync]_vars

\* some call of the coroutine t can be sent
CanSend(t) == \E op \in TaskOps : \E handle \in TaskHandles(op) : Send(t, op, handle)

\* C16: under every interleaving of the request and response steps of calls
\* in flight through one facade, a finished call has returned or raised what
\* its operation makes of its own response, on the request it built itself;
\* and a coroutine that is not in a call can send one whatever the other
\* calls are doing: the client holds no call back until another has been
\* answered.
C16_NoInterference ==
    \A t \in Tasks :
        /\ tasks[t].phase = "done" =>
              /\ tasks[t].outcome = TaskOutcome(tasks[t].op, tasks[t].response)
              /\ tasks[t].request = TaskRequest(tasks[t].op, tasks[t].handle)
        /\ tasks[t].phase \in {"idle", "done"} => ENABLED CanSend(t)

\* two calls overlapped; one raised, the other returned
C16_Witness ==
    /\ tasks # NoTasks
    /\ tasks["t1"].phase = "done"
    /\ tasks["t2"].phase = "done"
    /\ tasks["t1"].overlapped
    /\ tasks["t2"].overlapped
    /\ tasks["t1"].outcome.kind = "XeroMLError"
    /\ tasks["t2"].outcome.kind = "value"

====
